---- MODULE Spec2Model ----
(***************************************************************************)
(* Game of Thrones voice chatbot: the Express backend (server.js) and the  *)
(* browser client (public/client.js).                                      *)
(*                                                                         *)
(*   Spec       the three HTTP handlers of the backend, with NumReq        *)
(*              requests in flight at once, the uploads/ directory and     *)
(*              the external OpenAI provider as the environment.           *)
(*   SpecExt    the file-extension computation of /api/transcribe as a     *)
(*              pure function over bounded filenames.                      *)
(*   SpecClient the browser client: the record button, the recorder and    *)
(*              the pipeline run (processAudio) each recording starts.     *)
(*   SpecClientFair  SpecClient with every queued event, every HTTP        *)
(*              answer and the end of every playback eventually delivered. *)
(***************************************************************************)
EXTENDS Integers, Sequences, FiniteSets, TLC

VARIABLES
    pc,         \* per request: position of the handler
    req,        \* per request: endpoint and the inputs Express/multer hand over
    call,       \* per request: the outbound provider calls made, in order
    sent,       \* per request: the audio bytes the provider read from the stream
    prov,       \* per request: how the provider call ended
    res,        \* per request: the HTTP response sent
    ioError,    \* per request: a filesystem operation of the request failed
    fs,         \* the uploads/ directory: path -> content
    originalname,   \* SpecExt: the filename under test
    fileExtension,  \* SpecExt: the extension computed for it
    selectedCharacter,  \* client: the persona id chosen, or Null
    mediaRecorder,      \* client: the recorder the global refers to, 0 for null
    audioChunks,        \* client: the recorded chunks, each named by its recorder
    isRecording,        \* client
    isProcessing,       \* client
    disabled,           \* client: recordBtn.disabled
    recState,           \* client: MediaRecorder.state of each recorder
    pendingGum,         \* client: getUserMedia promises not yet settled
    stopQueue,          \* client: recorders whose 'stop' event is queued
    run                 \* client: the pipeline run of each recorder

serverVars == <<pc, req, call, sent, prov, res, ioError, fs>>
extVars == <<originalname, fileExtension>>
clientVars == <<selectedCharacter, mediaRecorder, audioChunks, isRecording,
                isProcessing, disabled, recState, pendingGum, stopQueue, run>>
vars == <<serverVars, extVars, clientVars>>

----------------------------------------------------------------------------
(* Bounds *)

NumReq == 2         \* requests in flight at once
MaxNameLen == 4     \* SpecExt: longest filename tried
MaxRecorders == 2   \* SpecClient: recorders created in one page load

Reqs == 1..NumReq

----------------------------------------------------------------------------
(* JavaScript values *)

Undefined == "<undefined>"
Null == "<null>"

FalsyOnlyEmpty(v) == v = ""

\* !v for the strings and undefined a JSON body field can hold
Falsy(v) == v \in {Undefined, ""}

----------------------------------------------------------------------------
(* Strings as sequences of characters *)

UpperCase == <<"A","B","C","D","E","F","G","H","I","J","K","L","M",
               "N","O","P","Q","R","S","T","U","V","W","X","Y","Z">>
LowerCase == <<"a","b","c","d","e","f","g","h","i","j","k","l","m",
               "n","o","p","q","r","s","t","u","v","w","x","y","z">>

ToLowerChar(c) ==
    IF \E i \in DOMAIN UpperCase : UpperCase[i] = c
    THEN LowerCase[CHOOSE i \in DOMAIN UpperCase : UpperCase[i] = c]
    ELSE c

\* String.prototype.toLowerCase
toLowerCase(s) == [i \in DOMAIN s |-> ToLowerChar(s[i])]

\* String.prototype.split(sep), sep one character: the pieces between the
\* separators, in order; a string without the separator is its only piece
RECURSIVE SplitFrom(_, _, _, _)
SplitFrom(s, sep, i, piece) ==
    IF i > Len(s) THEN <<piece>>
    ELSE IF s[i] = sep THEN <<piece>> \o SplitFrom(s, sep, i + 1, <<>>)
    ELSE SplitFrom(s, sep, i + 1, Append(piece, s[i]))

split(s, sep) == SplitFrom(s, sep, 1, <<>>)

\* Array.prototype.pop: the last element
pop(a) == a[Len(a)]

----------------------------------------------------------------------------
(* /api/transcribe: the extension of the staged file *)

AllowList == { <<"w","e","b","m">>, <<"m","p","3">>, <<"w","a","v">>,
               <<"o","g","g">>, <<"m","4","a">>, <<"m","p","4">> }

DefaultExtension == <<"w","e","b","m">>

FileExtension(name) ==
    IF name # <<>>
    THEN LET ext == toLowerCase(pop(split(name, ".")))
         IN  IF ext \in AllowList THEN ext ELSE DefaultExtension
    ELSE DefaultExtension

----------------------------------------------------------------------------
(* The persona registry *)

PersonaIds == {"jon-snow", "daenerys", "sansa"}

\* CHARACTER_PROMPTS: name, voice and prompt of each persona (each prompt is
\* written here by its opening sentence; the three are distinct texts)
CHARACTER_PROMPTS ==
    [id \in PersonaIds |->
        CASE id = "jon-snow" ->
                [name |-> "Jon Snow", voice |-> "onyx",
                 prompt |-> "You are Jon Snow of House Stark. ..."]
          [] id = "daenerys" ->
                [name |-> "Daenerys Targaryen", voice |-> "nova",
                 prompt |-> "You are Daenerys Stormborn of House Targaryen - Mother of Dragons. ..."]
          [] id = "sansa" ->
                [name |-> "Sansa Stark", voice |-> "shimmer",
                 prompt |-> "You are Sansa Stark, Queen in the North. ..."]]

\* The keys an object literal inherits from Object.prototype that the model
\* tries: CHARACTER_PROMPTS is a plain object, so obj[key] finds these too
InheritedKeys == {"constructor", "__proto__", "toString"}

\* Function.prototype.name of an inherited member; Object.prototype has none
InheritedName(key) ==
    CASE key = "constructor" -> "Object"
      [] key = "toString"    -> "toString"
      [] OTHER               -> Undefined

LookupFirst(character) ==
    IF character \in PersonaIds
    THEN [truthy |-> TRUE, name |-> CHARACTER_PROMPTS["jon-snow"].name,
          voice |-> CHARACTER_PROMPTS["jon-snow"].voice,
          prompt |-> CHARACTER_PROMPTS["jon-snow"].prompt]
    ELSE IF character \in InheritedKeys
    THEN [truthy |-> TRUE, name |-> InheritedName(character),
          voice |-> Undefined, prompt |-> Undefined]
    ELSE [truthy |-> FALSE, name |-> Undefined,
          voice |-> Undefined, prompt |-> Undefined]

\* const characterConfig = CHARACTER_PROMPTS[character]: the value found, with
\* whether it is truthy and what its .name, .voice and .prompt read as
Lookup(character) ==
    IF character \in PersonaIds
    THEN [truthy |-> TRUE, name |-> CHARACTER_PROMPTS[character].name,
          voice |-> CHARACTER_PROMPTS[character].voice,
          prompt |-> CHARACTER_PROMPTS[character].prompt]
    ELSE IF character \in InheritedKeys
    THEN [truthy |-> TRUE, name |-> InheritedName(character),
          voice |-> Undefined, prompt |-> Undefined]
    ELSE [truthy |-> FALSE, name |-> Undefined,
          voice |-> Undefined, prompt |-> Undefined]

----------------------------------------------------------------------------
(* Inputs the requests are drawn from *)

\* req.file.originalname; <<>> is an absent (or empty) name
FileNames == { <<>>,
               <<"r","e","c",".","w","e","b","m">>,
               <<"A",".","M","P","3">> }

Audios == {"audioA", "audioB"}

Texts == {Undefined, "Who are you?"}

Characters == {Undefined, "jon-snow", "sansa", "arya", "constructor", "__proto__"}

\* What the external provider answers
Transcript(audio) ==
    CASE audio = "audioA" -> "What is dead may never die"
      [] audio = "audioB" -> "Winter is coming"

Replies == {"I dont want it...", "Dracarys."}

AudioBuffers == { <<255, 251>>, <<73, 68, 51, 4>> }

ProviderErrors == {"429 Rate limit reached", "Connection error."}

RenameError == "EPERM: operation not permitted, rename"
UnlinkError == "EPERM: operation not permitted, unlink"

----------------------------------------------------------------------------
(* The uploads/ directory *)

NoPath == <<0, <<>>>>

EmptyDir == [q \in {} |-> Undefined]

\* multer({dest: 'uploads/'}) names each upload by fresh random bytes: one
\* path per request, without an extension
UploadPath(r) == <<r, <<>>>>

NewPathShared(path, ext) == <<0, ext>>

\* const newPath = `${req.file.path}.${fileExtension}`
NewPath(path, ext) == <<path[1], ext>>

Exists(dir, p) == p \in DOMAIN dir

WriteFile(dir, p, content) ==
    [q \in DOMAIN dir \cup {p} |-> IF q = p THEN content ELSE dir[q]]

\* fs.renameSync(old, new) when it succeeds: new replaces whatever it named
Rename(dir, old, new) ==
    [q \in (DOMAIN dir \ {old}) \cup {new} |-> IF q = new THEN dir[old] ELSE dir[q]]

\* fs.unlinkSync(p) when it succeeds
Unlink(dir, p) == [q \in DOMAIN dir \ {p} |-> dir[q]]

----------------------------------------------------------------------------
(* The browser client: state *)

Recorders == 1..MaxRecorders

NoRun == [pc |-> "none", blob |-> <<>>, log |-> <<>>, http |-> <<>>,
          result |-> "none"]

\* The global state of client.js as the page loads
ClientInit ==
    /\ selectedCharacter = Null
    /\ mediaRecorder = 0
    /\ audioChunks = <<>>
    /\ isRecording = FALSE
    /\ isProcessing = FALSE
    /\ disabled = FALSE
    /\ recState = [m \in Recorders |-> "unborn"]
    /\ pendingGum = 0
    /\ stopQueue = {}
    /\ run = [m \in Recorders |-> NoRun]

----------------------------------------------------------------------------
(* Requests and responses *)

NoReq == [endpoint |-> "none", file |-> FALSE, originalname |-> <<>>,
          audio |-> Undefined, path |-> NoPath, newPath |-> NoPath,
          text |-> Undefined, character |-> Undefined]

NoRes == [status |-> 0, error |-> Undefined, details |-> Undefined,
          text |-> Undefined, character |-> Undefined,
          contentType |-> Undefined, contentLength |-> -1, body |-> <<>>]

NoProv == [state |-> "none", message |-> Undefined, text |-> Undefined]

\* res.status(code).json({error, details})
JsonError(code, error, details) ==
    [NoRes EXCEPT !.status = code, !.error = error, !.details = details,
                  !.contentType = "application/json"]

NoCall == [api |-> "none", model |-> Undefined, file |-> NoPath,
           language |-> Undefined, system |-> Undefined, user |-> Undefined,
           voice |-> Undefined, input |-> Undefined]

Init ==
    /\ pc = [r \in Reqs |-> "idle"]
    /\ req = [r \in Reqs |-> NoReq]
    /\ call = [r \in Reqs |-> <<>>]
    /\ sent = [r \in Reqs |-> Undefined]
    /\ prov = [r \in Reqs |-> NoProv]
    /\ res = [r \in Reqs |-> NoRes]
    /\ ioError = [r \in Reqs |-> FALSE]
    /\ fs = EmptyDir
    /\ originalname = <<>>
    /\ fileExtension = <<>>
    /\ ClientInit

----------------------------------------------------------------------------
(* POST /api/transcribe *)

\* upload.single('audio'): multer stages the uploaded bytes, if the form has
\* the file field, and sets req.file
TranscribeUpload(r) ==
    /\ pc[r] = "idle"
    /\ \E file \in BOOLEAN, name \in FileNames, audio \in Audios :
          /\ req' = [req EXCEPT ![r] =
                        IF file
                        THEN [NoReq EXCEPT !.endpoint = "transcribe", !.file = TRUE,
                                           !.originalname = name, !.audio = audio,
                                           !.path = UploadPath(r)]
                        ELSE [NoReq EXCEPT !.endpoint = "transcribe"]]
          /\ fs' = IF file THEN WriteFile(fs, UploadPath(r), audio) ELSE fs
    /\ pc' = [pc EXCEPT ![r] = "received"]
    /\ UNCHANGED <<call, sent, prov, res, ioError, extVars, clientVars>>

TranscribeErrorBodyNoDetails(message) ==
    JsonError(500, "Transcription failed", Undefined)

\* res.status(500).json({error: 'Transcription failed', details: error.message})
TranscribeErrorBody(message) ==
    JsonError(500, "Transcription failed", message)

\* The catch block: unlink req.file.path, whatever that does, then answer 500.
\* dir and failed are the directory and the request's I/O history when the
\* exception was thrown.
TranscribeCatch(r, message, dir, failed) ==
    /\ \E ok \in BOOLEAN :
          IF req[r].file /\ Exists(dir, req[r].path)
          THEN IF ok
               THEN /\ fs' = Unlink(dir, req[r].path)
                    /\ ioError' = [ioError EXCEPT ![r] = failed]
               ELSE /\ fs' = dir
                    /\ ioError' = [ioError EXCEPT ![r] = TRUE]
          ELSE \* ENOENT, swallowed by the inner try/catch
               /\ ok
               /\ fs' = dir
               /\ ioError' = [ioError EXCEPT ![r] = failed]
    /\ res' = [res EXCEPT ![r] = TranscribeErrorBody(message)]
    /\ pc' = [pc EXCEPT ![r] = "done"]

TranscriptionCall(newPath) ==
    [NoCall EXCEPT !.api = "audio.transcriptions", !.model = "whisper-1",
                   !.file = newPath, !.language = "en"]

\* The handler up to its await: the file check, the extension, the rename and
\* the start of the provider call
TranscribeHandler(r) ==
    /\ pc[r] = "received"
    /\ req[r].endpoint = "transcribe"
    /\ IF ~req[r].file
       THEN /\ res' = [res EXCEPT ![r] = JsonError(400, "No audio file provided", Undefined)]
            /\ pc' = [pc EXCEPT ![r] = "done"]
            /\ UNCHANGED <<req, call, sent, prov, ioError, fs>>
       ELSE LET newPath == NewPath(req[r].path, FileExtension(req[r].originalname))
            IN  /\ req' = [req EXCEPT ![r].newPath = newPath]
                /\ \E ok \in BOOLEAN :
                      IF ok /\ Exists(fs, req[r].path)
                      THEN /\ fs' = Rename(fs, req[r].path, newPath)
                           /\ call' = [call EXCEPT ![r] = Append(@, TranscriptionCall(newPath))]
                           /\ pc' = [pc EXCEPT ![r] = "calling"]
                           /\ UNCHANGED <<sent, prov, res, ioError>>
                      ELSE /\ TranscribeCatch(r, RenameError, fs, TRUE)
                           /\ UNCHANGED <<call, sent, prov>>
    /\ UNCHANGED <<extVars, clientVars>>

\* fs.createReadStream(newPath) is read while the request body is sent
WhisperRead(r) ==
    /\ pc[r] = "calling"
    /\ req[r].endpoint = "transcribe"
    /\ Exists(fs, req[r].newPath)
    /\ sent' = [sent EXCEPT ![r] = fs[req[r].newPath]]
    /\ pc' = [pc EXCEPT ![r] = "streamed"]
    /\ UNCHANGED <<req, call, prov, res, ioError, fs, extVars, clientVars>>

\* The provider answers with the transcription: unlink the renamed file and
\* send the text; an exception of unlinkSync lands in the catch block
WhisperResolve(r) ==
    /\ pc[r] = "streamed"
    /\ req[r].endpoint = "transcribe"
    /\ LET text == Transcript(sent[r])
       IN  /\ prov' = [prov EXCEPT ![r] = [state |-> "resolved", message |-> Undefined,
                                           text |-> text]]
           /\ \E ok \in BOOLEAN :
                 IF ok /\ Exists(fs, req[r].newPath)
                 THEN /\ fs' = Unlink(fs, req[r].newPath)
                      /\ res' = [res EXCEPT ![r] =
                                    [NoRes EXCEPT !.status = 200, !.text = text,
                                                  !.contentType = "application/json"]]
                      /\ pc' = [pc EXCEPT ![r] = "done"]
                      /\ UNCHANGED ioError
                 ELSE TranscribeCatch(r, UnlinkError, fs, TRUE)
    /\ UNCHANGED <<req, call, sent, extVars, clientVars>>

\* The provider call fails (the provider's error, or the stream's)
WhisperReject(r) ==
    /\ pc[r] \in {"calling", "streamed"}
    /\ req[r].endpoint = "transcribe"
    /\ \E message \in ProviderErrors :
          /\ prov' = [prov EXCEPT ![r] = [state |-> "rejected", message |-> message,
                                          text |-> Undefined]]
          /\ TranscribeCatch(r, message, fs, ioError[r])
    /\ UNCHANGED <<req, call, sent, extVars, clientVars>>

----------------------------------------------------------------------------
(* POST /api/respond *)

ChatCall(config, text) ==
    [NoCall EXCEPT !.api = "chat.completions", !.model = "gpt-4o-mini",
                   !.system = config.prompt, !.user = text]

\* The handler up to its await: validation, the registry lookup and the start
\* of the provider call
RespondRequest(r) ==
    /\ pc[r] = "idle"
    /\ \E text \in Texts, character \in Characters :
          /\ req' = [req EXCEPT ![r] = [NoReq EXCEPT !.endpoint = "respond",
                                                     !.text = text,
                                                     !.character = character]]
          /\ IF Falsy(text) \/ Falsy(character)
             THEN /\ res' = [res EXCEPT ![r] = JsonError(400, "Missing text or character", Undefined)]
                  /\ pc' = [pc EXCEPT ![r] = "done"]
                  /\ UNCHANGED call
             ELSE IF ~Lookup(character).truthy
             THEN /\ res' = [res EXCEPT ![r] = JsonError(400, "Invalid character", Undefined)]
                  /\ pc' = [pc EXCEPT ![r] = "done"]
                  /\ UNCHANGED call
             ELSE /\ call' = [call EXCEPT ![r] = Append(@, ChatCall(Lookup(character), text))]
                  /\ pc' = [pc EXCEPT ![r] = "calling"]
                  /\ UNCHANGED res
    /\ UNCHANGED <<sent, prov, ioError, fs, extVars, clientVars>>

\* The provider answers: res.json({text, character: characterConfig.name})
ChatResolve(r) ==
    /\ pc[r] = "calling"
    /\ req[r].endpoint = "respond"
    /\ \E reply \in Replies :
          /\ prov' = [prov EXCEPT ![r] = [state |-> "resolved", message |-> Undefined,
                                          text |-> reply]]
          /\ res' = [res EXCEPT ![r] =
                        [NoRes EXCEPT !.status = 200, !.text = reply,
                                      !.character = Lookup(req[r].character).name,
                                      !.contentType = "application/json"]]
    /\ pc' = [pc EXCEPT ![r] = "done"]
    /\ UNCHANGED <<req, call, sent, ioError, fs, extVars, clientVars>>

\* The provider call fails: res.status(500).json({error: 'Response generation failed'})
ChatReject(r) ==
    /\ pc[r] = "calling"
    /\ req[r].endpoint = "respond"
    /\ \E message \in ProviderErrors :
          prov' = [prov EXCEPT ![r] = [state |-> "rejected", message |-> message,
                                       text |-> Undefined]]
    /\ res' = [res EXCEPT ![r] = JsonError(500, "Response generation failed", Undefined)]
    /\ pc' = [pc EXCEPT ![r] = "done"]
    /\ UNCHANGED <<req, call, sent, ioError, fs, extVars, clientVars>>

----------------------------------------------------------------------------
(* POST /api/tts *)

SpeechCall(config, text) ==
    [NoCall EXCEPT !.api = "audio.speech", !.model = "tts-1",
                   !.voice = config.voice, !.input = text]

ContentLengthPlusOne(buffer) == Len(buffer) + 1

\* 'Content-Length': buffer.length
ContentLength(buffer) == Len(buffer)

\* The handler up to its first await
TtsRequest(r) ==
    /\ pc[r] = "idle"
    /\ \E text \in Texts, character \in Characters :
          /\ req' = [req EXCEPT ![r] = [NoReq EXCEPT !.endpoint = "tts",
                                                     !.text = text,
                                                     !.character = character]]
          /\ IF Falsy(text) \/ Falsy(character)
             THEN /\ res' = [res EXCEPT ![r] = JsonError(400, "Missing text or character", Undefined)]
                  /\ pc' = [pc EXCEPT ![r] = "done"]
                  /\ UNCHANGED call
             ELSE IF ~Lookup(character).truthy
             THEN /\ res' = [res EXCEPT ![r] = JsonError(400, "Invalid character", Undefined)]
                  /\ pc' = [pc EXCEPT ![r] = "done"]
                  /\ UNCHANGED call
             ELSE /\ call' = [call EXCEPT ![r] = Append(@, SpeechCall(Lookup(character), text))]
                  /\ pc' = [pc EXCEPT ![r] = "calling"]
                  /\ UNCHANGED res
    /\ UNCHANGED <<sent, prov, ioError, fs, extVars, clientVars>>

\* openai.audio.speech.create resolves; the handler awaits mp3.arrayBuffer()
SpeechResolve(r) ==
    /\ pc[r] = "calling"
    /\ req[r].endpoint = "tts"
    /\ pc' = [pc EXCEPT ![r] = "buffering"]
    /\ UNCHANGED <<req, call, sent, prov, res, ioError, fs, extVars, clientVars>>

\* The body has arrived: res.set({...}); res.send(buffer)
SpeechBuffer(r) ==
    /\ pc[r] = "buffering"
    /\ req[r].endpoint = "tts"
    /\ \E buffer \in AudioBuffers :
          /\ prov' = [prov EXCEPT ![r] = [state |-> "resolved", message |-> Undefined,
                                          text |-> Undefined]]
          /\ res' = [res EXCEPT ![r] =
                        [NoRes EXCEPT !.status = 200, !.contentType = "audio/mpeg",
                                      !.contentLength = ContentLength(buffer),
                                      !.body = buffer]]
    /\ pc' = [pc EXCEPT ![r] = "done"]
    /\ UNCHANGED <<req, call, sent, ioError, fs, extVars, clientVars>>

\* The provider call or the download of its body fails
SpeechReject(r) ==
    /\ pc[r] \in {"calling", "buffering"}
    /\ req[r].endpoint = "tts"
    /\ \E message \in ProviderErrors :
          prov' = [prov EXCEPT ![r] = [state |-> "rejected", message |-> message,
                                       text |-> Undefined]]
    /\ res' = [res EXCEPT ![r] = JsonError(500, "TTS generation failed", Undefined)]
    /\ pc' = [pc EXCEPT ![r] = "done"]
    /\ UNCHANGED <<req, call, sent, ioError, fs, extVars, clientVars>>

----------------------------------------------------------------------------
(* The backend *)

Next ==
    \E r \in Reqs :
        \/ TranscribeUpload(r)
        \/ TranscribeHandler(r)
        \/ WhisperRead(r)
        \/ WhisperResolve(r)
        \/ WhisperReject(r)
        \/ RespondRequest(r)
        \/ ChatResolve(r)
        \/ ChatReject(r)
        \/ TtsRequest(r)
        \/ SpeechResolve(r)
        \/ SpeechBuffer(r)
        \/ SpeechReject(r)

Spec == Init /\ [][Next]_vars

----------------------------------------------------------------------------
(* Properties of the backend *)

Transcribes(r) == req[r].endpoint = "transcribe"
Responds(r) == req[r].endpoint = "respond"
Speaks(r) == req[r].endpoint = "tts"
Done(r) == pc[r] = "done"

\* C1: once /api/transcribe has answered, on any exit path on which the
\* filesystem itself did not fail, neither the uploaded path nor the renamed
\* path of the request exists in uploads/.
C1_StagedFileReleased ==
    \A r \in Reqs :
        (Transcribes(r) /\ Done(r) /\ ~ioError[r])
            => /\ ~Exists(fs, req[r].path)
               /\ ~Exists(fs, req[r].newPath)

\* C2: a /api/respond or /api/tts request whose character is not a persona id
\* of the registry makes no provider call and is answered 400.
C2_UnknownPersonaRejected ==
    \A r \in Reqs :
        ((Responds(r) \/ Speaks(r)) /\ req[r].character \notin PersonaIds)
            => /\ call[r] = <<>>
               /\ Done(r) => res[r].status = 400

MissingInput(r) ==
    \/ Transcribes(r) /\ ~req[r].file
    \/ (Responds(r) \/ Speaks(r))
          /\ (req[r].text = Undefined \/ req[r].character = Undefined)

\* C3: a request that lacks a required input (no audio file; absent text or
\* absent character) makes no provider call and is answered 400.
C3_MissingInputRejected ==
    \A r \in Reqs :
        MissingInput(r)
            => /\ call[r] = <<>>
               /\ prov[r].state = "none"
               /\ Done(r) => res[r].status = 400

C3_Witness ==
    \E r1, r2 \in Reqs :
        /\ Transcribes(r1) /\ ~req[r1].file /\ Done(r1) /\ res[r1].status = 400
        /\ Responds(r2) /\ req[r2].text = Undefined /\ req[r2].character = "sansa"
        /\ Done(r2) /\ res[r2].status = 400

\* C4 (as claimed): when the provider call fails, the response has status 500
\* and its body carries the provider's error message.
C4_ProviderMessageCarried ==
    \A r \in Reqs :
        (Done(r) /\ prov[r].state = "rejected")
            => /\ res[r].status = 500
               /\ prov[r].message \in {res[r].error, res[r].details, res[r].text}

\* C4 (amended): when the provider call fails, the response has status 500;
\* /api/transcribe carries the provider's message in details, /api/respond and
\* /api/tts carry only their fixed error string.
C4_ProviderFailureIs500 ==
    \A r \in Reqs :
        (Done(r) /\ prov[r].state = "rejected")
            => /\ res[r].status = 500
               /\ Transcribes(r) => /\ res[r].error = "Transcription failed"
                                    /\ res[r].details = prov[r].message
               /\ Responds(r) => /\ res[r].error = "Response generation failed"
                                 /\ res[r].details = Undefined
               /\ Speaks(r) => /\ res[r].error = "TTS generation failed"
                               /\ res[r].details = Undefined

C4_Witness ==
    \E r1, r2 \in Reqs :
        /\ Transcribes(r1) /\ Done(r1) /\ prov[r1].state = "rejected"
        /\ res[r1].details = "Connection error."
        /\ Speaks(r2) /\ Done(r2) /\ prov[r2].state = "rejected"
        /\ res[r2].status = 500

\* C5: whenever the provider call of /api/transcribe succeeded, the caller gets
\* status 200 with the transcribed text, whether or not the staged file could
\* be deleted; whenever it failed, the caller gets the provider-failure response.
C5_CleanupFailureNotSurfaced ==
    \A r \in Reqs :
        (Transcribes(r) /\ Done(r))
            => /\ prov[r].state = "resolved"
                    => (res[r].status = 200 /\ res[r].text = prov[r].text)
               /\ prov[r].state = "rejected"
                    => (res[r].status = 500 /\ res[r].details = prov[r].message)

\* C6: concurrent /api/transcribe requests do not interfere: while a request is
\* in flight its staged file exists under its own path with its own bytes, the
\* provider reads those bytes, and a 200 response carries their transcript.
C6_NoCrossContamination ==
    \A r \in Reqs :
        (Transcribes(r) /\ req[r].file) =>
            /\ pc[r] = "received"
                  => (Exists(fs, req[r].path) /\ fs[req[r].path] = req[r].audio)
            /\ pc[r] \in {"calling", "streamed"}
                  => /\ Exists(fs, req[r].newPath)
                     /\ fs[req[r].newPath] = req[r].audio
                     /\ call[r] = <<TranscriptionCall(req[r].newPath)>>
            /\ pc[r] = "streamed" => sent[r] = req[r].audio
            /\ (Done(r) /\ res[r].status = 200)
                  => res[r].text = Transcript(req[r].audio)
            /\ \A q \in Reqs \ {r} :
                  (req[q].file /\ pc[r] # "received")
                      => req[r].newPath \notin {req[q].path, req[q].newPath}

C6_Witness ==
    \E r1, r2 \in Reqs :
        /\ r1 # r2
        /\ Transcribes(r1) /\ Done(r1) /\ res[r1].status = 200
        /\ Transcribes(r2) /\ pc[r2] = "streamed"
        /\ req[r1].audio # req[r2].audio
        /\ req[r1].originalname = req[r2].originalname
        /\ res[r1].text = Transcript(req[r1].audio)

ValidRespond(r) ==
    /\ req[r].character \in PersonaIds
    /\ ~Falsy(req[r].text)

\* C8: a /api/respond request with a valid persona id and non-empty text makes
\* exactly one text-generation call, whose system message is that persona's
\* prompt and whose user message is the request's text, and a 200 response
\* names that persona's display name.
C8_RespondUsesPersona ==
    \A r \in Reqs :
        (Responds(r) /\ ValidRespond(r)) =>
            /\ Len(call[r]) = 1
            /\ call[r][1].api = "chat.completions"
            /\ call[r][1].system = CHARACTER_PROMPTS[req[r].character].prompt
            /\ call[r][1].user = req[r].text
            /\ (Done(r) /\ res[r].status = 200)
                  => res[r].character = CHARACTER_PROMPTS[req[r].character].name

C8_Witness ==
    \E r \in Reqs :
        /\ Responds(r) /\ req[r].character = "sansa" /\ Done(r)
        /\ res[r].status = 200 /\ res[r].character = "Sansa Stark"
        /\ res[r].text = "Dracarys."

\* C9: a /api/tts request with a valid persona id and non-empty text makes
\* exactly one speech call, with that persona's voice and the request's text,
\* and a 200 response has Content-Type audio/mpeg and a Content-Length equal to
\* the length of the audio buffer sent.
C9_TtsUsesVoice ==
    \A r \in Reqs :
        (Speaks(r) /\ ValidRespond(r)) =>
            /\ Len(call[r]) = 1
            /\ call[r][1].api = "audio.speech"
            /\ call[r][1].voice = CHARACTER_PROMPTS[req[r].character].voice
            /\ call[r][1].input = req[r].text
            /\ (Done(r) /\ res[r].status = 200)
                  => /\ res[r].contentType = "audio/mpeg"
                     /\ res[r].contentLength = Len(res[r].body)

C9_Witness ==
    \E r \in Reqs :
        /\ Speaks(r) /\ req[r].character = "sansa" /\ Done(r)
        /\ res[r].status = 200 /\ res[r].contentLength = 4
        /\ call[r][1].voice = "shimmer"

----------------------------------------------------------------------------
(* The extension computation on its own: every filename of at most          *)
(* MaxNameLen characters over NameChars                                     *)

NameChars == {"m", "p", "3", "M", "P", "."}

RECURSIVE NamesOfLen(_)
NamesOfLen(n) ==
    IF n = 0 THEN { <<>> }
    ELSE { Append(s, c) : s \in NamesOfLen(n - 1), c \in NameChars }

Names == UNION { NamesOfLen(n) : n \in 0..MaxNameLen }

InitExt ==
    /\ pc = [r \in Reqs |-> "idle"]
    /\ req = [r \in Reqs |-> NoReq]
    /\ call = [r \in Reqs |-> <<>>]
    /\ sent = [r \in Reqs |-> Undefined]
    /\ prov = [r \in Reqs |-> NoProv]
    /\ res = [r \in Reqs |-> NoRes]
    /\ ioError = [r \in Reqs |-> FALSE]
    /\ fs = EmptyDir
    /\ originalname \in Names
    /\ fileExtension = <<>>
    /\ ClientInit

\* Lines 114-121 of the handler, applied to the filename under test
ComputeExtension ==
    /\ fileExtension = <<>>
    /\ fileExtension' = FileExtension(originalname)
    /\ UNCHANGED <<originalname, serverVars, clientVars>>

NextExt == ComputeExtension

SpecExt == InitExt /\ [][NextExt]_vars

HasDot(s) == \E i \in DOMAIN s : s[i] = "."

\* The text after the last '.' of a name that has one
AfterLastDot(s) ==
    LET last == CHOOSE i \in DOMAIN s :
                    s[i] = "." /\ \A j \in DOMAIN s : s[j] = "." => j <= i
    IN  SubSeq(s, last + 1, Len(s))

\* C7: the extension is always in the allow-list: it is the lower-cased text
\* after the filename's last '.' when that text is in the allow-list, and
\* 'webm' otherwise (also when the filename is absent).
C7_ExtensionAfterLastDot ==
    fileExtension # <<>> =>
        /\ fileExtension \in AllowList
        /\ fileExtension =
              IF HasDot(originalname)
                 /\ toLowerCase(AfterLastDot(originalname)) \in AllowList
              THEN toLowerCase(AfterLastDot(originalname))
              ELSE DefaultExtension

\* What the code computes: a filename that has no '.' is taken whole as its
\* own extension
ExtensionAsComputed ==
    fileExtension # <<>> =>
        /\ fileExtension \in AllowList
        /\ LET tail == IF HasDot(originalname) THEN AfterLastDot(originalname)
                       ELSE originalname
           IN  fileExtension = IF toLowerCase(tail) \in AllowList
                               THEN toLowerCase(tail) ELSE DefaultExtension

----------------------------------------------------------------------------
(* The browser client: recording *)

\* A character button is clicked; the buttons are hidden afterwards
SelectCharacter ==
    /\ selectedCharacter = Null
    /\ \E c \in PersonaIds : selectedCharacter' = c
    /\ UNCHANGED <<mediaRecorder, audioChunks, isRecording, isProcessing, disabled,
                   recState, pendingGum, stopQueue, run, serverVars, extVars>>

Created == {m \in Recorders : recState[m] # "unborn"}

\* A click on the record button while neither processing nor recording:
\* startRecording() runs up to its await of getUserMedia. (A click while
\* isProcessing returns at once and changes nothing; a disabled button
\* delivers no click; the chat interface, which holds the button, is shown by
\* the click on a character.)
ClickStart ==
    /\ selectedCharacter # Null
    /\ ~disabled
    /\ ~isProcessing
    /\ ~isRecording
    /\ Cardinality(Created) + pendingGum < MaxRecorders
    /\ pendingGum' = pendingGum + 1
    /\ UNCHANGED <<selectedCharacter, mediaRecorder, audioChunks, isRecording,
                   isProcessing, disabled, recState, stopQueue, run,
                   serverVars, extVars>>

\* getUserMedia resolves: the rest of startRecording()
GumResolve ==
    /\ pendingGum > 0
    /\ \E m \in Recorders :
          /\ recState[m] = "unborn"
          /\ \A k \in Recorders : k < m => recState[k] # "unborn"
          /\ mediaRecorder' = m
          /\ recState' = [recState EXCEPT ![m] = "recording"]
    /\ audioChunks' = <<>>
    /\ isRecording' = TRUE
    /\ pendingGum' = pendingGum - 1
    /\ UNCHANGED <<selectedCharacter, isProcessing, disabled, stopQueue, run,
                   serverVars, extVars>>

\* getUserMedia rejects: the catch of startRecording() alerts
GumReject ==
    /\ pendingGum > 0
    /\ pendingGum' = pendingGum - 1
    /\ UNCHANGED <<selectedCharacter, mediaRecorder, audioChunks, isRecording,
                   isProcessing, disabled, recState, stopQueue, run,
                   serverVars, extVars>>

\* A click on the record button while recording: stopRecording()
ClickStop ==
    /\ ~disabled
    /\ ~isProcessing
    /\ isRecording
    /\ IF mediaRecorder # 0 /\ recState[mediaRecorder] = "recording"
       THEN /\ recState' = [recState EXCEPT ![mediaRecorder] = "inactive"]
            /\ stopQueue' = stopQueue \cup {mediaRecorder}
            /\ isRecording' = FALSE
       ELSE UNCHANGED <<recState, stopQueue, isRecording>>
    /\ UNCHANGED <<selectedCharacter, mediaRecorder, audioChunks, isProcessing,
                   disabled, pendingGum, run, serverVars, extVars>>

----------------------------------------------------------------------------
(* The browser client: the pipeline run *)

NoFetch == [endpoint |-> "none", audio |-> <<>>, text |-> Undefined,
            character |-> Undefined]

\* fetch('/api/transcribe', {body: formData}) of transcribeAudio
TranscribeFetch(audioBlob) ==
    [NoFetch EXCEPT !.endpoint = "/api/transcribe", !.audio = audioBlob]

GenerateFetchNoText(text, character) ==
    [NoFetch EXCEPT !.endpoint = "/api/respond", !.character = character]

\* fetch('/api/respond', {body: {text, character: selectedCharacter}})
GenerateFetch(text, character) ==
    [NoFetch EXCEPT !.endpoint = "/api/respond", !.text = text,
                    !.character = character]

\* fetch('/api/tts', {body: {text, character: selectedCharacter}})
SpeakFetch(text, character) ==
    [NoFetch EXCEPT !.endpoint = "/api/tts", !.text = text,
                    !.character = character]

\* What a fetch can come back with: response.ok and the text of its body
\* (a rejected fetch counts as not ok)
Failed == [ok |-> FALSE, text |-> Undefined]
TranscribeOutcomes == {[ok |-> TRUE, text |-> Transcript(a)] : a \in Audios} \cup {Failed}
RespondOutcomes == {[ok |-> TRUE, text |-> t] : t \in Replies} \cup {Failed}
TtsOutcomes == {[ok |-> TRUE, text |-> Undefined], Failed}

\* The recorder's 'dataavailable' and 'stop' events, then processAudio() up to
\* its first await
StopEvent(m) ==
    /\ m \in stopQueue
    /\ stopQueue' = stopQueue \ {m}
    /\ audioChunks' = Append(audioChunks, m)
    /\ isProcessing' = TRUE
    /\ disabled' = TRUE
    /\ run' = [run EXCEPT ![m] =
                  [NoRun EXCEPT !.pc = "transcribing", !.blob = audioChunks',
                                !.log = <<TranscribeFetch(audioChunks')>>]]
    /\ UNCHANGED <<selectedCharacter, mediaRecorder, isRecording, recState,
                   pendingGum, serverVars, extVars>>

\* catch and finally of processAudio()
RunFails(m, outcome) ==
    /\ run' = [run EXCEPT ![m].pc = "done", ![m].result = "error",
                          ![m].http = Append(@, outcome)]
    /\ isProcessing' = FALSE
    /\ disabled' = FALSE

\* /api/transcribe answers
TranscribeReturns(m) ==
    /\ run[m].pc = "transcribing"
    /\ \E outcome \in TranscribeOutcomes :
          IF outcome.ok
          THEN /\ run' = [run EXCEPT
                            ![m].pc = "responding",
                            ![m].http = Append(@, outcome),
                            ![m].log = Append(@, GenerateFetch(outcome.text, selectedCharacter))]
               /\ UNCHANGED <<isProcessing, disabled>>
          ELSE RunFails(m, outcome)
    /\ UNCHANGED <<selectedCharacter, mediaRecorder, audioChunks, isRecording,
                   recState, pendingGum, stopQueue, serverVars, extVars>>

\* /api/respond answers
RespondReturns(m) ==
    /\ run[m].pc = "responding"
    /\ \E outcome \in RespondOutcomes :
          IF outcome.ok
          THEN /\ run' = [run EXCEPT
                            ![m].pc = "speaking",
                            ![m].http = Append(@, outcome),
                            ![m].log = Append(@, SpeakFetch(outcome.text, selectedCharacter))]
               /\ UNCHANGED <<isProcessing, disabled>>
          ELSE RunFails(m, outcome)
    /\ UNCHANGED <<selectedCharacter, mediaRecorder, audioChunks, isRecording,
                   recState, pendingGum, stopQueue, serverVars, extVars>>

\* /api/tts answers; on success the audio is created and audio.play() called
TtsReturns(m) ==
    /\ run[m].pc = "speaking"
    /\ \E outcome \in TtsOutcomes :
          IF outcome.ok
          THEN /\ run' = [run EXCEPT ![m].pc = "playing",
                                     ![m].http = Append(@, outcome)]
               /\ UNCHANGED <<isProcessing, disabled>>
          ELSE RunFails(m, outcome)
    /\ UNCHANGED <<selectedCharacter, mediaRecorder, audioChunks, isRecording,
                   recState, pendingGum, stopQueue, serverVars, extVars>>

\* audio.onended: the promise resolves, then finally
AudioEnded(m) ==
    /\ run[m].pc = "playing"
    /\ run' = [run EXCEPT ![m].pc = "done", ![m].result = "ready"]
    /\ isProcessing' = FALSE
    /\ disabled' = FALSE
    /\ UNCHANGED <<selectedCharacter, mediaRecorder, audioChunks, isRecording,
                   recState, pendingGum, stopQueue, serverVars, extVars>>

\* audio.onerror: the promise rejects, then catch and finally
AudioError(m) ==
    /\ run[m].pc = "playing"
    /\ run' = [run EXCEPT ![m].pc = "done", ![m].result = "error"]
    /\ isProcessing' = FALSE
    /\ disabled' = FALSE
    /\ UNCHANGED <<selectedCharacter, mediaRecorder, audioChunks, isRecording,
                   recState, pendingGum, stopQueue, serverVars, extVars>>

\* The promise audio.play() returned rejects (playback not allowed): nothing
\* handles it, and neither 'ended' nor 'error' follows
PlayRejected(m) ==
    /\ run[m].pc = "playing"
    /\ run' = [run EXCEPT ![m].pc = "stalled"]
    /\ UNCHANGED <<selectedCharacter, mediaRecorder, audioChunks, isRecording,
                   isProcessing, disabled, recState, pendingGum, stopQueue,
                   serverVars, extVars>>

InitClient ==
    /\ pc = [r \in Reqs |-> "idle"]
    /\ req = [r \in Reqs |-> NoReq]
    /\ call = [r \in Reqs |-> <<>>]
    /\ sent = [r \in Reqs |-> Undefined]
    /\ prov = [r \in Reqs |-> NoProv]
    /\ res = [r \in Reqs |-> NoRes]
    /\ ioError = [r \in Reqs |-> FALSE]
    /\ fs = EmptyDir
    /\ originalname = <<>>
    /\ fileExtension = <<>>
    /\ ClientInit

NextClient ==
    \/ SelectCharacter
    \/ ClickStart
    \/ GumResolve
    \/ GumReject
    \/ ClickStop
    \/ \E m \in Recorders :
          \/ StopEvent(m)
          \/ TranscribeReturns(m)
          \/ RespondReturns(m)
          \/ TtsReturns(m)
          \/ AudioEnded(m)
          \/ AudioError(m)
          \/ PlayRejected(m)

SpecClient == InitClient /\ [][NextClient]_vars

\* The endpoints in the order of the pipeline
Pipeline == <<"/api/transcribe", "/api/respond", "/api/tts">>

\* C10: each pipeline run calls the endpoints in the order transcribe, respond,
\* tts; each call but the first is made only after the one before it returned
\* successfully, and with the text it returned; after a failed step no further
\* call is made.
C10_PipelineOrder ==
    \A m \in Recorders :
        LET log == run[m].log
            http == run[m].http
        IN  /\ Len(log) <= 3
            /\ \A k \in DOMAIN log : log[k].endpoint = Pipeline[k]
            /\ Len(http) <= Len(log)
            /\ Len(log) <= Len(http) + 1
            /\ \A k \in DOMAIN log :
                  k > 1 => /\ k - 1 \in DOMAIN http
                           /\ http[k - 1].ok
                           /\ log[k].text = http[k - 1].text
            /\ \A k \in DOMAIN http : ~http[k].ok => Len(log) = k

C10_Witness ==
    \E m, n \in Recorders :
        /\ run[m].pc = "done" /\ run[m].result = "ready"
        /\ Len(run[m].log) = 3
        /\ run[m].log[2].text = "Winter is coming"
        /\ run[m].log[3].text = "Dracarys."
        /\ run[n].pc = "done" /\ Len(run[n].log) = 2 /\ ~run[n].http[2].ok

----------------------------------------------------------------------------
(* The browser client under fair scheduling: the event loop delivers every  *)
(* queued 'stop' event, every fetch is answered, every getUserMedia promise *)
(* settles and a playback that goes on ends or errors. Whether audio.play() *)
(* is refused is left to the browser.                                       *)

SpecClientFair ==
    /\ SpecClient
    /\ WF_vars(GumResolve \/ GumReject)
    /\ \A m \in Recorders :
          /\ WF_vars(StopEvent(m))
          /\ WF_vars(TranscribeReturns(m))
          /\ WF_vars(RespondReturns(m))
          /\ WF_vars(TtsReturns(m))
          /\ WF_vars(AudioEnded(m) \/ AudioError(m))

InFlight(m) == run[m].pc \notin {"none", "done"}

\* C11: every pipeline run that has started eventually finishes, with
\* isProcessing back to false and the record button enabled again, whichever
\* step succeeds or fails and also when audio.play() rejects.
C11_RunEventuallyFinishes ==
    \A m \in Recorders :
        InFlight(m) ~> (run[m].pc = "done" /\ ~isProcessing /\ ~disabled)

Recording == {m \in Recorders : recState[m] = "recording"}

\* C12: at most one MediaRecorder is in the recording state at any time, and
\* every recorder that is recording is the one mediaRecorder refers to, so that
\* a later click can stop it.
C12_OneStoppableRecorder ==
    /\ Cardinality(Recording) <= 1
    /\ \A m \in Recording : mediaRecorder = m

\* C13: isRecording and isProcessing are never both true, and at most one
\* pipeline run is in flight at a time.
C13_RecordingExcludesProcessing ==
    /\ ~(isRecording /\ isProcessing)
    /\ Cardinality({m \in Recorders : InFlight(m)}) <= 1

====
